---- MODULE Spec2Model ----
(***************************************************************************)
(* Model of the health-check endpoints of misago/healthcheck/views.py:     *)
(* healthcheck, readiness, liveness and metrics, together with the         *)
(* collaborators they call (the database connection, the cache, psutil).   *)
(*                                                                         *)
(* Conventions.                                                            *)
(*  - A Python value that may be None / a dict key that may be absent is   *)
(*    an optional: None == <<>>, Some(v) == <<v>>.                         *)
(*  - A Python string built by an f-string is the sequence of its parts:   *)
(*    "ok" is <<"ok">>, f"error: {str(e)}" is <<"error: ", str(e)>>.       *)
(*  - The outcome of a call into a collaborator is a record                *)
(*    [raised, msg, value]: either it returned value[1] or it raised an    *)
(*    exception e with str(e) = msg.                                       *)
(*  - Percentages (psutil's .percent, a float with one decimal) are kept   *)
(*    in tenths of a percent: 90.0 is 900, 89.9 is 899.                    *)
(***************************************************************************)
EXTENDS Integers, Sequences, FiniteSets, TLC

VARIABLES
    PSUTIL_AVAILABLE,   \* module flag set once by the guarded import
    env,                \* what the collaborators will do when called
    store,              \* contents of the cache, per key
    request,            \* META of the request being answered (None: idle)
    response,           \* what the handler produced for it (None: idle)
    probes,             \* collaborator calls the handler made for it
    threads             \* the requests in progress when several run at once

vars == <<PSUTIL_AVAILABLE, env, store, request, response, probes, threads>>

None == <<>>
Some(v) == <<v>>

Ok(v) == [raised |-> FALSE, msg |-> "", value |-> Some(v)]
Raise(m) == [raised |-> TRUE, msg |-> m, value |-> None]

\* str(e) of the exceptions a collaborator raises; Exception() has str "".
Msgs == {"", "connection refused"}

\* psutil's .percent samples, in tenths of a percent.
Percents == {890, 899, 900, 1000}

\* The X-Request-Id header of an inbound request: absent or a value.
RequestIds == {None, Some("req-1"), Some("req-2")}

Keys == {"health_check", "ready_check"}

\* round(n / d, 2) in hundredths, for n, d >= 0 (nearest, halves upward).
Round2(n, d) == (2 * 100 * n + d) \div (2 * d)

(***************************************************************************)
(* Collaborators.  env says, for each call the handlers make, whether it   *)
(* returns or raises.                                                      *)
(***************************************************************************)

\* psutil.disk_usage('/'): percent in tenths, free in MiB.
DiskSamples == {[percent |-> p, free |-> (1000 - p) * 8] : p \in Percents}

\* psutil.virtual_memory(): percent in tenths, available in MiB.
MemorySamples == {[percent |-> p, available |-> (1000 - p) * 4] : p \in Percents}

\* redis_conn.info(): a key-value map; a key may be missing from it.
RedisInfos ==
    { [connected_clients |-> Some(7), used_memory |-> Some(2097152),
       used_memory_peak |-> Some(3145728)],
      [connected_clients |-> Some(7), used_memory |-> None,
       used_memory_peak |-> None] }

EnvDomain ==
    [ db         |-> {Ok(1)} \cup {Raise(m) : m \in Msgs},
      db_stats   |-> {Ok(<<3, 1>>), Raise("relation does not exist")},
      cache_set  |-> {Ok(TRUE), Raise("connection refused")},
      cache_get  |-> {Ok("hit"), Ok("miss")} \cup {Raise(m) : m \in Msgs},
      disk       |-> {Ok(d) : d \in DiskSamples} \cup {Raise("permission denied")},
      memory     |-> {Ok(v) : v \in MemorySamples} \cup {Raise("permission denied")},
      cpu        |-> {Ok(125), Raise("permission denied")},
      redis_info |-> {Ok(i) : i \in RedisInfos} \cup {Raise("connection refused")} ]

\* with connection.cursor() as cursor: cursor.execute("SELECT 1") [; fetchone()]
db_select_1(e) == e.db

\* The pg_stat_activity query of metrics: it fails when the connection fails.
db_stat_activity(e) == IF e.db.raised THEN e.db ELSE e.db_stats

\* cache.set(key, value, timeout): the store after the call, or the exception.
cache_set(e, st, key, value) ==
    IF e.cache_set.raised
    THEN [out |-> e.cache_set, store |-> st]
    ELSE [out |-> Ok(TRUE), store |-> [st EXCEPT ![key] = Some(value)]]

\* cache.get(key): the stored value, None for a key that is not there (never
\* set, expired or evicted), or the exception.
cache_get(e, st, key) ==
    IF e.cache_get.raised
    THEN [out |-> e.cache_get, store |-> st]
    ELSE IF e.cache_get.value = Some("miss")
    THEN [out |-> Ok(None), store |-> [st EXCEPT ![key] = None]]
    ELSE [out |-> Ok(st[key]), store |-> st]

\* Mutant of META_get: the header is looked up under a key that is never there.
META_get_wrong_key(META, default) == default

\* request.META.get(key, default), for the one key the handlers read.
META_get(META, default) ==
    IF META.HTTP_X_REQUEST_ID = None THEN default ELSE META.HTTP_X_REQUEST_ID[1]

\* A handler's result: the JsonResponse it returned, or the exception that
\* left it.
JsonResponse(h, data, code) ==
    [handler |-> h, kind |-> "response", status_code |-> code, body |-> data]

Unhandled(h, m) ==
    [handler |-> h, kind |-> "exception", status_code |-> 0, body |-> [error |-> m]]

(***************************************************************************)
(* healthcheck.  Each guarded block of the handler is an operator giving   *)
(* what the block leaves behind: exc is the exception that leaves the      *)
(* block (None when it completed, caught exceptions included), calls the   *)
(* collaborator calls it made.                                             *)
(***************************************************************************)

\* Mutant of db_check: the query runs outside the try block.
db_check_uncaught(e) ==
    LET q == db_select_1(e) IN
    [ exc    |-> IF q.raised THEN Some(q.msg) ELSE None,
      status |-> <<"ok">>,
      calls  |-> {"db"} ]

\* Check database connection.
db_check(e) ==
    LET q == db_select_1(e) IN
    [ exc    |-> None,
      status |-> IF q.raised THEN <<"error: ", q.msg>> ELSE <<"ok">>,
      calls  |-> {"db"} ]

\* Check Redis connection, when cache.set raised: the except branch.
redis_set_raised(s) ==
    [ exc |-> None, status |-> <<"error: ", s.out.msg>>,
      store |-> s.store, calls |-> {"cache.set"} ]

\* Check Redis connection, after cache.set returned: g is the cache.get.
redis_after_get(g) ==
    IF g.out.raised
    THEN [ exc |-> None, status |-> <<"error: ", g.out.msg>>,
           store |-> g.store, calls |-> {"cache.set", "cache.get"} ]
    ELSE [ exc |-> None,
           status |-> IF g.out.value[1] = Some("ok") THEN <<"ok">> ELSE <<"error">>,
           store |-> g.store, calls |-> {"cache.set", "cache.get"} ]

\* Check Redis connection: set the sentinel, read it back, compare.
redis_check(e, st) ==
    LET s == cache_set(e, st, "health_check", "ok")
        g == cache_get(e, s.store, "health_check")
    IN  IF s.out.raised THEN redis_set_raised(s) ELSE redis_after_get(g)

\* Mutant of disk_check: without psutil the check passes for "ok".
disk_check_absent_ok(avail, e) ==
    IF avail
    THEN IF e.disk.raised
         THEN [ exc |-> None, status |-> <<"error: ", e.disk.msg>>,
                sample |-> None, calls |-> {"psutil.disk_usage"} ]
         ELSE [ exc |-> None,
                status |-> IF e.disk.value[1].percent < 90 * 10
                           THEN <<"ok">> ELSE <<"warning">>,
                sample |-> e.disk.value, calls |-> {"psutil.disk_usage"} ]
    ELSE [ exc |-> None, status |-> <<"ok">>, sample |-> None, calls |-> {} ]

\* Check disk usage.  sample is the local disk_usage: bound only when
\* psutil.disk_usage returned.
disk_check(avail, e) ==
    IF avail
    THEN IF e.disk.raised
         THEN [ exc |-> None, status |-> <<"error: ", e.disk.msg>>,
                sample |-> None, calls |-> {"psutil.disk_usage"} ]
         ELSE [ exc |-> None, status |-> IF e.disk.value[1].percent < 90 * 10
                           THEN <<"ok">> ELSE <<"warning">>,
                sample |-> e.disk.value, calls |-> {"psutil.disk_usage"} ]
    ELSE [ exc |-> None, status |-> <<"unknown (psutil not available)">>,
           sample |-> None, calls |-> {} ]

\* Mutant of memory_check: the comparison is <= 90, so exactly 90 is "ok".
memory_check_le(avail, e) ==
    IF avail
    THEN IF e.memory.raised
         THEN [ exc |-> None, status |-> <<"error: ", e.memory.msg>>,
                sample |-> None, calls |-> {"psutil.virtual_memory"} ]
         ELSE [ exc |-> None,
                status |-> IF e.memory.value[1].percent <= 90 * 10
                           THEN <<"ok">> ELSE <<"warning">>,
                sample |-> e.memory.value, calls |-> {"psutil.virtual_memory"} ]
    ELSE [ exc |-> None, status |-> <<"unknown (psutil not available)">>,
           sample |-> None, calls |-> {} ]

\* Check memory usage.  sample is the local memory.
memory_check(avail, e) ==
    IF avail
    THEN IF e.memory.raised
         THEN [ exc |-> None, status |-> <<"error: ", e.memory.msg>>,
                sample |-> None, calls |-> {"psutil.virtual_memory"} ]
         ELSE [ exc |-> None, status |-> IF e.memory.value[1].percent < 90 * 10
                           THEN <<"ok">> ELSE <<"warning">>,
                sample |-> e.memory.value, calls |-> {"psutil.virtual_memory"} ]
    ELSE [ exc |-> None, status |-> <<"unknown (psutil not available)">>,
           sample |-> None, calls |-> {} ]

\* Mutant of overall_status: the memory warning is left out of the elif.
overall_status_disk_only(db_status, redis_status, disk_status, memory_status) ==
    IF db_status # <<"ok">> \/ redis_status # <<"ok">> THEN "error"
    ELSE IF disk_status = <<"warning">> THEN "warning"
    ELSE "ok"

\* Overall status.
overall_status(db_status, redis_status, disk_status, memory_status) ==
    IF db_status # <<"ok">> \/ redis_status # <<"ok">> THEN "error"
    ELSE IF disk_status = <<"warning">> \/ memory_status = <<"warning">> THEN "warning"
    ELSE "ok"

\* The "system" dict of a response; a key that is not in the dict is None.
NoSystem ==
    [ cpu_percent |-> None, memory_percent |-> None, disk_percent |-> None,
      error |-> None ]

\* Add system metrics only if psutil is available.
system_metrics(avail, e, disk_usage, memory) ==
    IF avail
    THEN IF e.cpu.raised
         THEN [ exc |-> None, system |-> [NoSystem EXCEPT !.error = Some(e.cpu.msg)],
                calls |-> {"psutil.cpu_percent"} ]
         ELSE [ exc |-> None,
                system |->
                  [ cpu_percent    |-> e.cpu.value,
                    memory_percent |-> IF memory # None THEN Some(memory[1].percent)
                                       ELSE Some(0),
                    disk_percent   |-> IF disk_usage # None THEN Some(disk_usage[1].percent)
                                       ELSE Some(0),
                    error          |-> None ],
                calls |-> {"psutil.cpu_percent"} ]
    ELSE [ exc |-> None, system |-> NoSystem, calls |-> {} ]

\* Mutant of status_code: a warning fails the probe too.
status_code_warning_fails(overall) ==
    IF overall = "error" THEN 503 ELSE IF overall = "warning" THEN 503 ELSE 200

\* Set appropriate HTTP status code.
status_code(overall) ==
    IF overall = "error" THEN 503 ELSE IF overall = "warning" THEN 200 ELSE 200

\* What a handler made of blocks run in order leaves behind: n is the number
\* of blocks that ran (all of them, or up to the first that an exception left).
Ran(blocks) ==
    LET failed == {i \in 1..Len(blocks) : blocks[i].exc # None}
    IN  IF failed = {} THEN Len(blocks)
        ELSE CHOOSE i \in failed : \A j \in failed : i <= j

CallsOf(blocks) == UNION {blocks[i].calls : i \in 1..Ran(blocks)}

\* The rest of healthcheck once the database and Redis blocks db and rd have
\* run: the disk and memory checks, the overall status, the response.
health_report(META, avail, e, db, rd) ==
    LET dk == disk_check(avail, e)
        mm == memory_check(avail, e)
        sy == system_metrics(avail, e, dk.sample, mm.sample)
        blocks == <<db, rd, dk, mm, sy>>
        n == Ran(blocks)
        overall == overall_status(db.status, rd.status, dk.status, mm.status)
        response_data ==
            [ status    |-> overall,
              timestamp |-> META_get(META, ""),
              service   |-> "misago",
              version   |-> "unknown",
              checks    |-> [ database |-> db.status, redis |-> rd.status,
                              disk |-> dk.status, memory |-> mm.status ],
              system    |-> sy.system ]
    IN  [ response |-> IF blocks[n].exc # None
                       THEN Unhandled("health", blocks[n].exc[1])
                       ELSE JsonResponse("health", response_data, status_code(overall)),
          ran      |-> n,
          probes   |-> CallsOf(blocks) ]

healthcheck(META, avail, e, st) ==
    LET db == db_check(e)
        rd == redis_check(e, st)
        r == health_report(META, avail, e, db, rd)
    IN  [ response |-> r.response,
          store    |-> IF r.ran >= 2 THEN rd.store ELSE st,
          probes   |-> r.probes ]

(***************************************************************************)
(* readiness, liveness, metrics.                                           *)
(***************************************************************************)

readiness(META, e, st) ==
    LET q == db_select_1(e)
        g == cache_get(e, st, "ready_check")
        not_ready(m) ==
            JsonResponse("ready",
                         [ status |-> "not_ready", error |-> Some(m),
                           timestamp |-> META_get(META, "") ], 503)
    IN  IF q.raised
        THEN [ response |-> not_ready(q.msg), store |-> st, probes |-> {"db"} ]
        ELSE IF g.out.raised
        THEN [ response |-> not_ready(g.out.msg), store |-> g.store,
               probes |-> {"db", "cache.get"} ]
        ELSE [ response |-> JsonResponse("ready",
                                         [ status |-> "ready", error |-> None,
                                           timestamp |-> META_get(META, "") ], 200),
               store |-> g.store, probes |-> {"db", "cache.get"} ]

liveness(META) ==
    [ response |-> JsonResponse("live",
                                [ status |-> "alive",
                                  timestamp |-> META_get(META, "") ], 200),
      probes   |-> {} ]

\* Get system metrics: cpu, memory, disk, in this order, unguarded.
metrics_sample(avail, e) ==
    IF ~avail
    THEN [ exc |-> None, cpu_percent |-> None, memory |-> None, disk |-> None,
           calls |-> {} ]
    ELSE IF e.cpu.raised
    THEN [ exc |-> Some(e.cpu.msg), cpu_percent |-> None, memory |-> None,
           disk |-> None, calls |-> {"psutil.cpu_percent"} ]
    ELSE IF e.memory.raised
    THEN [ exc |-> Some(e.memory.msg), cpu_percent |-> e.cpu.value, memory |-> None,
           disk |-> None, calls |-> {"psutil.cpu_percent", "psutil.virtual_memory"} ]
    ELSE IF e.disk.raised
    THEN [ exc |-> Some(e.disk.msg), cpu_percent |-> e.cpu.value,
           memory |-> e.memory.value, disk |-> None,
           calls |-> {"psutil.cpu_percent", "psutil.virtual_memory",
                      "psutil.disk_usage"} ]
    ELSE [ exc |-> None, cpu_percent |-> e.cpu.value, memory |-> e.memory.value,
           disk |-> e.disk.value,
           calls |-> {"psutil.cpu_percent", "psutil.virtual_memory",
                      "psutil.disk_usage"} ]

\* Get database stats, unguarded: db_stats is the row fetched.
metrics_db_stats(e) ==
    LET q == db_stat_activity(e) IN
    [ exc      |-> IF q.raised THEN Some(q.msg) ELSE None,
      db_stats |-> q.value,
      calls    |-> {"db"} ]

\* Get Redis info: any exception leaves redis_info = {}.
NoRedisInfo ==
    [ connected_clients |-> None, used_memory |-> None, used_memory_peak |-> None ]

metrics_redis_info(e) ==
    [ exc        |-> None,
      redis_info |-> IF e.redis_info.raised THEN NoRedisInfo ELSE e.redis_info.value[1],
      calls      |-> {"redis.info"} ]

\* dict.get(key, default) on an optional entry.
dict_get(entry, default) == IF entry = None THEN default ELSE entry[1]

NoMetricsSystem ==
    [ cpu_usage_percent |-> None, memory_usage_percent |-> None,
      memory_available_gb |-> None, disk_usage_percent |-> None,
      disk_free_gb |-> None, error |-> None ]

\* Add system metrics only if psutil is available.
metrics_system(avail, sm) ==
    IF avail /\ sm.cpu_percent # None
    THEN [ cpu_usage_percent    |-> sm.cpu_percent,
           memory_usage_percent |-> Some(sm.memory[1].percent),
           memory_available_gb  |-> Some(Round2(sm.memory[1].available, 1024)),
           disk_usage_percent   |-> Some(sm.disk[1].percent),
           disk_free_gb         |-> Some(Round2(sm.disk[1].free, 1024)),
           error                |-> None ]
    ELSE IF ~avail
    THEN [NoMetricsSystem EXCEPT !.error = Some("psutil not available")]
    ELSE NoMetricsSystem

metrics(META, avail, e) ==
    LET sm == metrics_sample(avail, e)
        db == metrics_db_stats(e)
        ri == metrics_redis_info(e)
        blocks == <<sm, db, ri>>
        n == Ran(blocks)
        response_data ==
            [ metrics |->
                [ system   |-> metrics_system(avail, sm),
                  database |->
                    [ total_connections  |-> IF db.db_stats # None
                                             THEN db.db_stats[1][1] ELSE 0,
                      active_connections |-> IF db.db_stats # None
                                             THEN db.db_stats[1][2] ELSE 0 ],
                  redis    |->
                    [ connected_clients   |-> dict_get(ri.redis_info.connected_clients, 0),
                      used_memory_mb      |->
                          Round2(dict_get(ri.redis_info.used_memory, 0), 1024 * 1024),
                      used_memory_peak_mb |->
                          Round2(dict_get(ri.redis_info.used_memory_peak, 0), 1024 * 1024) ] ],
              timestamp |-> META_get(META, "") ]
    IN  [ response |-> IF blocks[n].exc # None
                       THEN JsonResponse("metrics",
                                         [ error |-> blocks[n].exc[1],
                                           timestamp |-> META_get(META, "") ], 500)
                       ELSE JsonResponse("metrics", response_data, 200),
          probes   |-> CallsOf(blocks) ]

(***************************************************************************)
(* The state machine.  The handlers keep nothing between requests but the  *)
(* cache: a request arrives with its META under some behaviour of the      *)
(* collaborators (env), the routed handler answers it, and the response is *)
(* delivered and discarded.                                                *)
(***************************************************************************)

\* Every behaviour of the collaborators during one request.
AllEnvs ==
    [ db : EnvDomain.db, db_stats : EnvDomain.db_stats,
      cache_set : EnvDomain.cache_set, cache_get : EnvDomain.cache_get,
      disk : EnvDomain.disk, memory : EnvDomain.memory, cpu : EnvDomain.cpu,
      redis_info : EnvDomain.redis_info ]

\* The requests that can be in progress at once.
MaxThreads == 2

Threads == 1..MaxThreads

\* A worker thread with no request: the handlers keep nothing in it.
IdleThread ==
    [ handler |-> "", META |-> [HTTP_X_REQUEST_ID |-> None], pc |-> "idle",
      db |-> None, rd |-> None, response |-> None ]

HealthyEnv ==
    [ db |-> Ok(1), db_stats |-> Ok(<<3, 1>>), cache_set |-> Ok(TRUE),
      cache_get |-> Ok("hit"),
      disk |-> Ok([percent |-> 890, free |-> (1000 - 890) * 8]),
      memory |-> Ok([percent |-> 890, available |-> (1000 - 890) * 4]),
      cpu |-> Ok(125),
      redis_info |-> Ok([connected_clients |-> Some(7), used_memory |-> Some(2097152),
                         used_memory_peak |-> Some(3145728)]) ]

Init ==
    /\ PSUTIL_AVAILABLE \in BOOLEAN
    /\ env = HealthyEnv
    /\ store = [k \in Keys |-> None]
    /\ request = None
    /\ response = None
    /\ probes = {}
    /\ threads = [t \in Threads |-> IdleThread]

\* path("health/", healthcheck)
Healthcheck ==
    /\ request = None
    /\ \E id \in RequestIds : \E e \in AllEnvs :
        LET META == [HTTP_X_REQUEST_ID |-> id]
            r == healthcheck(META, PSUTIL_AVAILABLE, e, store)
        IN  /\ env' = e
            /\ request' = Some(META)
            /\ response' = Some(r.response)
            /\ store' = r.store
            /\ probes' = r.probes
            /\ UNCHANGED <<PSUTIL_AVAILABLE, threads>>

\* path("ready/", readiness)
Readiness ==
    /\ request = None
    /\ \E id \in RequestIds : \E e \in AllEnvs :
        LET META == [HTTP_X_REQUEST_ID |-> id]
            r == readiness(META, e, store)
        IN  /\ env' = e
            /\ request' = Some(META)
            /\ response' = Some(r.response)
            /\ store' = r.store
            /\ probes' = r.probes
            /\ UNCHANGED <<PSUTIL_AVAILABLE, threads>>

\* Mutant of Liveness: the probe tests the database as readiness does.
Liveness_tests_db ==
    /\ request = None
    /\ \E id \in RequestIds : \E e \in AllEnvs :
        LET META == [HTTP_X_REQUEST_ID |-> id]
            r == readiness(META, e, store)
        IN  /\ env' = e
            /\ request' = Some(META)
            /\ response' = Some([r.response EXCEPT !.handler = "live"])
            /\ probes' = r.probes
            /\ UNCHANGED <<PSUTIL_AVAILABLE, store, threads>>

\* path("live/", liveness)
Liveness ==
    /\ request = None
    /\ \E id \in RequestIds : \E e \in AllEnvs :
        LET META == [HTTP_X_REQUEST_ID |-> id]
            r == liveness(META)
        IN  /\ env' = e
            /\ request' = Some(META)
            /\ response' = Some(r.response)
            /\ probes' = r.probes
            /\ UNCHANGED <<PSUTIL_AVAILABLE, store, threads>>

\* path("metrics/", metrics)
Metrics ==
    /\ request = None
    /\ \E id \in RequestIds : \E e \in AllEnvs :
        LET META == [HTTP_X_REQUEST_ID |-> id]
            r == metrics(META, PSUTIL_AVAILABLE, e)
        IN  /\ env' = e
            /\ request' = Some(META)
            /\ response' = Some(r.response)
            /\ probes' = r.probes
            /\ UNCHANGED <<PSUTIL_AVAILABLE, store, threads>>

\* The response is delivered; nothing of the request is kept.
Deliver ==
    /\ request # None
    /\ request' = None
    /\ response' = None
    /\ probes' = {}
    /\ env' = HealthyEnv
    /\ UNCHANGED <<PSUTIL_AVAILABLE, store, threads>>

\* The sentinel key's timeout (10 s) passes.
Expire ==
    /\ store["health_check"] # None
    /\ store' = [store EXCEPT !["health_check"] = None]
    /\ UNCHANGED <<PSUTIL_AVAILABLE, env, request, response, probes, threads>>

Next ==
    \/ Healthcheck
    \/ Readiness
    \/ Liveness
    \/ Metrics
    \/ Deliver
    \/ Expire

Spec == Init /\ [][Next]_vars

(***************************************************************************)
(* Concurrent requests.  The hosting runtime runs one handler per thread;  *)
(* the threads share the module flag, the collaborators and the cache and  *)
(* nothing else.  A handler's calls into the cache are separate steps that *)
(* interleave with the other threads' steps; what a handler does between   *)
(* two cache calls touches only its own locals and is one step.            *)
(***************************************************************************)

\* The request-id headers of the concurrent requests.
ConcIds == {None, Some("req-1")}

Handlers == {"health", "ready", "live", "metrics"}

\* The collaborators while the database and the cache work; the sampler and
\* the figures it gives vary.
ConcEnvs ==
    { HealthyEnv,
      [HealthyEnv EXCEPT !.memory = Ok([percent |-> 900, available |-> (1000 - 900) * 4])],
      [HealthyEnv EXCEPT !.disk = Raise("permission denied")] }

InitConc ==
    /\ PSUTIL_AVAILABLE \in BOOLEAN
    /\ env \in ConcEnvs
    /\ store = [k \in Keys |-> None]
    /\ request = None
    /\ response = None
    /\ probes = {}
    /\ threads = [t \in Threads |-> IdleThread]

Shared == <<PSUTIL_AVAILABLE, env, request, response, probes>>

\* A thread finishes its request with response r.
Done(t, r) == [threads EXCEPT ![t].pc = "done", ![t].response = Some(r)]

\* urlpatterns routes an inbound request to its handler on a free thread.
Arrive(t) ==
    /\ threads[t].pc = "idle"
    /\ \E h \in Handlers : \E id \in ConcIds :
           threads' = [threads EXCEPT
                         ![t] = [IdleThread EXCEPT
                                   !.handler = h,
                                   !.META = [HTTP_X_REQUEST_ID |-> id],
                                   !.pc = IF h \in {"health", "ready"} THEN "db"
                                          ELSE "run"]]
    /\ UNCHANGED <<Shared, store>>

\* healthcheck: check database connection.
HealthDb(t) ==
    /\ threads[t].handler = "health" /\ threads[t].pc = "db"
    /\ LET db == db_check(env) IN
           threads' = IF db.exc # None
                      THEN Done(t, Unhandled("health", db.exc[1]))
                      ELSE [threads EXCEPT ![t].db = Some(db), ![t].pc = "cache.set"]
    /\ UNCHANGED <<Shared, store>>

\* healthcheck: cache.set("health_check", "ok", 10).
HealthCacheSet(t) ==
    /\ threads[t].handler = "health" /\ threads[t].pc = "cache.set"
    /\ LET s == cache_set(env, store, "health_check", "ok") IN
           /\ store' = s.store
           /\ threads' = IF s.out.raised
                         THEN [threads EXCEPT ![t].rd = Some(redis_set_raised(s)),
                                              ![t].pc = "report"]
                         ELSE [threads EXCEPT ![t].pc = "cache.get"]
    /\ UNCHANGED Shared

\* Mutant of HealthCacheGet: the handler deletes the sentinel after reading it.
HealthCacheGet_deletes(t) ==
    /\ threads[t].handler = "health" /\ threads[t].pc = "cache.get"
    /\ LET g == cache_get(env, store, "health_check") IN
           /\ store' = [g.store EXCEPT !["health_check"] = None]
           /\ threads' = [threads EXCEPT ![t].rd = Some(redis_after_get(g)),
                                         ![t].pc = "report"]
    /\ UNCHANGED Shared

\* healthcheck: result = cache.get("health_check") and the comparison.
HealthCacheGet(t) ==
    /\ threads[t].handler = "health" /\ threads[t].pc = "cache.get"
    /\ LET g == cache_get(env, store, "health_check") IN
           /\ store' = g.store
           /\ threads' = [threads EXCEPT ![t].rd = Some(redis_after_get(g)),
                                         ![t].pc = "report"]
    /\ UNCHANGED Shared

\* healthcheck: disk and memory checks, overall status, response.
HealthReport(t) ==
    /\ threads[t].handler = "health" /\ threads[t].pc = "report"
    /\ threads' = Done(t, health_report(threads[t].META, PSUTIL_AVAILABLE, env,
                                        threads[t].db[1], threads[t].rd[1]).response)
    /\ UNCHANGED <<Shared, store>>

\* readiness: test database; an exception ends in the except branch.
ReadyDb(t) ==
    /\ threads[t].handler = "ready" /\ threads[t].pc = "db"
    /\ threads' = IF db_select_1(env).raised
                  THEN Done(t, readiness(threads[t].META, env, store).response)
                  ELSE [threads EXCEPT ![t].pc = "cache.get"]
    /\ UNCHANGED <<Shared, store>>

\* readiness: cache.get("ready_check") and the response.
ReadyCacheGet(t) ==
    /\ threads[t].handler = "ready" /\ threads[t].pc = "cache.get"
    /\ LET r == readiness(threads[t].META, env, store) IN
           /\ store' = r.store
           /\ threads' = Done(t, r.response)
    /\ UNCHANGED Shared

\* liveness touches nothing shared.
LiveRun(t) ==
    /\ threads[t].handler = "live" /\ threads[t].pc = "run"
    /\ threads' = Done(t, liveness(threads[t].META).response)
    /\ UNCHANGED <<Shared, store>>

\* metrics reads the sampler, the database and the Redis info, not the cache
\* keys.
MetricsRun(t) ==
    /\ threads[t].handler = "metrics" /\ threads[t].pc = "run"
    /\ threads' = Done(t, metrics(threads[t].META, PSUTIL_AVAILABLE, env).response)
    /\ UNCHANGED <<Shared, store>>

\* The response is delivered and the thread is free again.
DeliverConc(t) ==
    /\ threads[t].pc = "done"
    /\ threads' = [threads EXCEPT ![t] = IdleThread]
    /\ UNCHANGED <<Shared, store>>

\* The sentinel key's timeout (10 s) passes.  No request stays that long
\* between its cache.set and its cache.get.
ExpireConc ==
    /\ store["health_check"] # None
    /\ \A t \in Threads : ~(threads[t].handler = "health" /\ threads[t].pc = "cache.get")
    /\ store' = [store EXCEPT !["health_check"] = None]
    /\ UNCHANGED <<Shared, threads>>

NextConc ==
    \/ \E t \in Threads : Arrive(t)
    \/ \E t \in Threads : HealthDb(t)
    \/ \E t \in Threads : HealthCacheSet(t)
    \/ \E t \in Threads : HealthCacheGet(t)
    \/ \E t \in Threads : HealthReport(t)
    \/ \E t \in Threads : ReadyDb(t)
    \/ \E t \in Threads : ReadyCacheGet(t)
    \/ \E t \in Threads : LiveRun(t)
    \/ \E t \in Threads : MetricsRun(t)
    \/ \E t \in Threads : DeliverConc(t)
    \/ ExpireConc

SpecConc == InitConc /\ [][NextConc]_vars

(***************************************************************************)
(* Properties.                                                             *)
(***************************************************************************)

\* The response of the named handler, when there is one.
Answered(h) == response # None /\ response[1].handler = h

Returned(h) == Answered(h) /\ response[1].kind = "response"

Body == response[1].body

Code == response[1].status_code

\* The status of a check as the report words it: "error" or "error: ..." is
\* an error, "unknown ..." is unknown.
Sev(s) ==
    IF s[1] \in {"error", "error: "} THEN "error"
    ELSE IF s = <<"warning">> THEN "warning"
    ELSE IF s = <<"ok">> THEN "ok"
    ELSE "unknown"

CheckNames == {"database", "redis", "disk", "memory"}

SevOf(c) == Sev(Body.checks[c])

\* C1: in every health response the overall status is never better than the
\* worst check (error > warning > ok): a check in error makes the overall
\* status error, a check in warning makes it warning or error.
C1_OverallNeverBetterThanWorst ==
    Returned("health") =>
        /\ (\E c \in CheckNames : SevOf(c) = "error") => Body.status = "error"
        /\ (\E c \in CheckNames : SevOf(c) = "warning") =>
               Body.status \in {"warning", "error"}

\* C2: the health handler answers 503 exactly when the overall status is
\* error and 200 otherwise; 503 whenever the database check is an error, 200
\* whenever every check is ok or warning.
C2_HealthHttpStatus ==
    Returned("health") =>
        /\ Code \in {200, 503}
        /\ Code = 503 <=> Body.status = "error"
        /\ SevOf("database") = "error" => Code = 503
        /\ (\A c \in CheckNames : SevOf(c) \in {"ok", "warning"}) => Code = 200

C2_Witness ==
    /\ Returned("health")
    /\ SevOf("database") = "ok" /\ SevOf("redis") = "ok"
    /\ SevOf("disk") = "warning" /\ SevOf("memory") = "ok"
    /\ Code = 200

\* C3: the liveness handler answers alive with 200 whatever the database,
\* the cache and the sampler would do, and calls none of them.
C3_LivenessIndependent ==
    Answered("live") =>
        /\ response[1].kind = "response"
        /\ Code = 200
        /\ Body.status = "alive"
        /\ probes = {}

C3_Witness ==
    /\ Returned("live")
    /\ env.db.raised /\ env.cache_get.raised /\ env.cache_set.raised
    /\ env.cpu.raised /\ env.disk.raised /\ env.memory.raised
    /\ Code = 200

\* C4: readiness answers ready with 200 when the database probe and the
\* cache probe both succeed, and not_ready with 503 and a non-empty error
\* field whenever one of them raises, whatever the exception.
C4_Readiness ==
    Answered("ready") =>
        /\ response[1].kind = "response"
        /\ (~env.db.raised /\ ~env.cache_get.raised) =>
               (Body.status = "ready" /\ Code = 200)
        /\ (env.db.raised \/ env.cache_get.raised) =>
               /\ Body.status = "not_ready"
               /\ Code = 503
               /\ Body.error # None
               /\ Body.error[1] # ""

\* C5: in metrics a failed counter fetch (the connection-count query or the
\* cache info call) gives zero counters and still 200; 500 is not the answer
\* to a failed counter fetch.
SamplingFails ==
    PSUTIL_AVAILABLE /\ (env.cpu.raised \/ env.memory.raised \/ env.disk.raised)

C5_MetricsDegrades ==
    (Answered("metrics") /\ ~SamplingFails) =>
        /\ response[1].kind = "response"
        /\ Code = 200
        /\ db_stat_activity(env).raised =>
               /\ Body.metrics.database.total_connections = 0
               /\ Body.metrics.database.active_connections = 0
        /\ env.redis_info.raised =>
               /\ Body.metrics.redis.connected_clients = 0
               /\ Body.metrics.redis.used_memory_mb = 0
               /\ Body.metrics.redis.used_memory_peak_mb = 0

\* C6: on every response path of every handler the timestamp field is the
\* value of the request-id header, and the empty string without the header.
C6_TimestampEchoesRequestId ==
    response # None =>
        /\ response[1].kind = "response"
        /\ "timestamp" \in DOMAIN Body
        /\ request[1].HTTP_X_REQUEST_ID = None => Body.timestamp = ""
        /\ request[1].HTTP_X_REQUEST_ID # None =>
               Body.timestamp = request[1].HTTP_X_REQUEST_ID[1]

C6_Witness ==
    /\ Returned("metrics")
    /\ Code = 500
    /\ request[1].HTTP_X_REQUEST_ID = Some("req-2")
    /\ Body.timestamp = "req-2"

\* C7: without psutil the disk and memory checks are unknown, and the overall
\* status is what the database and cache checks alone give: ok with 200 when
\* both are ok.
C7_AbsentSamplerIsUnknown ==
    (Returned("health") /\ ~PSUTIL_AVAILABLE) =>
        /\ SevOf("disk") = "unknown"
        /\ SevOf("memory") = "unknown"
        /\ Body.status =
               IF SevOf("database") = "error" \/ SevOf("redis") = "error"
               THEN "error" ELSE "ok"
        /\ (SevOf("database") = "ok" /\ SevOf("redis") = "ok") =>
               (Body.status = "ok" /\ Code = 200)

C7_Witness ==
    /\ Returned("health")
    /\ ~PSUTIL_AVAILABLE
    /\ SevOf("disk") = "unknown" /\ SevOf("memory") = "unknown"
    /\ Body.status = "ok"
    /\ Code = 200

\* C8: with no check in error and at least one in warning, the overall
\* status is warning.
C8_WarningWithoutError ==
    ( /\ Returned("health")
      /\ \A c \in CheckNames : SevOf(c) # "error"
      /\ \E c \in CheckNames : SevOf(c) = "warning" ) =>
        Body.status = "warning"

C8_Witness ==
    /\ Returned("health")
    /\ SevOf("database") = "ok" /\ SevOf("redis") = "ok"
    /\ SevOf("disk") = "ok" /\ SevOf("memory") = "warning"
    /\ Body.status = "warning"

\* C9: no failing probe aborts the health handler: it always returns a
\* report with 200 or 503, in which a database or cache probe that raised is a
\* check in error.
C9_HealthNeverAborts ==
    Answered("health") =>
        /\ response[1].kind = "response"
        /\ Code \in {200, 503}
        /\ env.db.raised => SevOf("database") = "error"
        /\ (env.cache_set.raised \/ env.cache_get.raised) => SevOf("redis") = "error"

C9_Witness ==
    /\ Returned("health")
    /\ PSUTIL_AVAILABLE
    /\ env.db.raised /\ env.cache_set.raised
    /\ env.disk.raised /\ env.memory.raised /\ env.cpu.raised
    /\ Code = 503

\* C10: when sampling succeeds, the disk check is warning iff disk
\* utilisation is >= 90 percent and ok otherwise, and likewise the memory
\* check: exactly 90 is a warning, 89 is ok.
C10_WarningFromNinety ==
    (Returned("health") /\ PSUTIL_AVAILABLE) =>
        /\ ~env.disk.raised =>
               Body.checks.disk =
                   IF env.disk.value[1].percent >= 900 THEN <<"warning">> ELSE <<"ok">>
        /\ ~env.memory.raised =>
               Body.checks.memory =
                   IF env.memory.value[1].percent >= 900 THEN <<"warning">> ELSE <<"ok">>

C10_Witness ==
    /\ Returned("health")
    /\ PSUTIL_AVAILABLE
    /\ ~env.disk.raised /\ env.disk.value[1].percent = 890
    /\ ~env.memory.raised /\ env.memory.value[1].percent = 900
    /\ Body.checks.disk = <<"ok">>
    /\ Body.checks.memory = <<"warning">>

\* C11: a numeric system metric (cpu, memory or disk percentage) is in the
\* system section of a health or metrics response only when that sample
\* succeeded, and is then the sampled value; after a failed sample or without
\* psutil it is absent, never 0.
C11_SystemMetricOnlyWhenSampled ==
    /\ Returned("health") =>
           /\ Body.system.cpu_percent # None =>
                  (PSUTIL_AVAILABLE /\ ~env.cpu.raised
                     /\ Body.system.cpu_percent = env.cpu.value)
           /\ Body.system.memory_percent # None =>
                  (PSUTIL_AVAILABLE /\ ~env.memory.raised
                     /\ Body.system.memory_percent = Some(env.memory.value[1].percent))
           /\ Body.system.disk_percent # None =>
                  (PSUTIL_AVAILABLE /\ ~env.disk.raised
                     /\ Body.system.disk_percent = Some(env.disk.value[1].percent))
    /\ (Returned("metrics") /\ Code = 200) =>
           /\ Body.metrics.system.cpu_usage_percent # None =>
                  (PSUTIL_AVAILABLE /\ ~env.cpu.raised
                     /\ Body.metrics.system.cpu_usage_percent = env.cpu.value)
           /\ Body.metrics.system.memory_usage_percent # None =>
                  (PSUTIL_AVAILABLE /\ ~env.memory.raised
                     /\ Body.metrics.system.memory_usage_percent
                            = Some(env.memory.value[1].percent))
           /\ Body.metrics.system.disk_usage_percent # None =>
                  (PSUTIL_AVAILABLE /\ ~env.disk.raised
                     /\ Body.metrics.system.disk_usage_percent
                            = Some(env.disk.value[1].percent))

\* What the handler of thread t answers when its request runs alone, from an
\* empty cache.
Alone(t) ==
    LET th == threads[t]
        st0 == [k \in Keys |-> None]
    IN  IF th.handler = "health"
        THEN healthcheck(th.META, PSUTIL_AVAILABLE, env, st0).response
        ELSE IF th.handler = "ready" THEN readiness(th.META, env, st0).response
        ELSE IF th.handler = "live" THEN liveness(th.META).response
        ELSE metrics(th.META, PSUTIL_AVAILABLE, env).response

====
